---- MODULE Spec2Model ----
(***************************************************************************)
(* State-machine model of the SIR agent-based simulation engine of         *)
(* src/src/julia_reimpl.rs: Agent, Environment::init, update_type,         *)
(* move_all, get_statistics and the run loop.                              *)
(*                                                                         *)
(* Agents are indexed from 0, as in the Rust Vec.  Random draws are        *)
(* nondeterministic choices.  p_death is held in percent (50 = 0.5).       *)
(***************************************************************************)
EXTENDS Integers, Sequences, FiniteSets, TLC

\* ------------------------------------------------------------ bounds ----
MaxN == 4
MaxDuration == 1
MaxDim == 3
\* Most ways init may place the agents on the grid: (xdim * ydim)^n.
MaxPlacements == 16

\* No valid run reaches this tick (see Termination); it keeps a run that
\* fails to terminate finite.
MaxTick == MaxN * MaxDuration + 2

\* usize arithmetic wraps modulo 2^64 in a release build; the modulus is
\* scaled down to the integers TLC can represent.
UsizeModulus == 2^30

\* p_death arguments tried, in percent: two outside [0,1], the two ends, one inside.
PDeathValues == {-50, 0, 50, 100, 150}

\* ------------------------------------------------------------ types -----
AgentS == "AgentS"
AgentI == "AgentI"
AgentR == "AgentR"
AgentD == "AgentD"
AgentType == {AgentS, AgentI, AgentR, AgentD}

VARIABLES
    cfg,          \* the arguments of Environment::init
    pc,           \* position of the caller: init, then run and its loop
    grid,         \* Environment.grid: cell -> sequence of agent indices
    grid_size,    \* Environment.grid_size
    agents,       \* Environment.agents: index -> Agent
    duration,     \* Environment.duration
    p_death,      \* Environment.p_death (percent)
    stats,        \* Environment.stats
    tick,         \* Environment.tick
    stats_ticks,  \* the vector run() builds and returns
    events,       \* history: per agent, the die/recover/infect calls made on it
    panic         \* which panic ended the program, "none" if none

vars == <<cfg, pc, grid, grid_size, agents, duration, p_death, stats, tick,
          stats_ticks, events, panic>>

\* ------------------------------------------------------------ Agent -----
die(a, t) == [a EXCEPT !.agent_type = AgentD, !.tick = t]

recoverStaysInfected(a, t) == [a EXCEPT !.tick = t]
recover(a, t) == [a EXCEPT !.agent_type = AgentR, !.tick = t]

infect(a, t) == [a EXCEPT !.agent_type = AgentI, !.tick = t]

\* usize::saturating_sub
saturating_sub(a, b) == IF a >= b THEN a - b ELSE 0

\* One axis of move_agent: the Bernoulli(0.5) sample picks the branch,
\* step is the Uniform{0,1} sample.
move_axisNoModulo(c, positive, step, bound) ==
    IF positive THEN c + step ELSE saturating_sub(c, step)
move_axisWrapsBelow(c, positive, step, bound) ==
    IF positive THEN (c + step) % bound ELSE (c + bound - step) % bound
move_agentMovesDead(a, gs) ==
    { [a EXCEPT !.x = (a.x + sx) % gs[1]] : sx \in 0..1 }
move_axis(c, positive, step, bound) ==
    IF positive THEN (c + step) % bound ELSE saturating_sub(c, step) % bound

move_agent(a, gs) ==
    IF a.agent_type = AgentD THEN {a}
    ELSE { [a EXCEPT !.x = move_axis(a.x, px, sx, gs[1]),
                     !.y = move_axis(a.y, py, sy, gs[2])] :
             px \in BOOLEAN, sx \in 0..1, py \in BOOLEAN, sy \in 0..1 }

\* ------------------------------------------------------------ grid ------
EmptyGrid == [c \in {} |-> <<>>]

\* grid.entry(cell).and_modify(|x| x.push(i)).or_insert_with(|| vec![i])
grid_entry_pushNoInsert(g, cell, i) ==
    IF cell \in DOMAIN g THEN [g EXCEPT ![cell] = Append(@, i)] ELSE g
grid_entry_push(g, cell, i) ==
    IF cell \in DOMAIN g THEN [g EXCEPT ![cell] = Append(@, i)]
    ELSE g @@ (cell :> <<i>>)

drainKeepsEntries(g) == g
drain(g) == EmptyGrid

\* ------------------------------------------------------------ tally -----
TallyDefault == [susceptible |-> 0, infected |-> 0, recovered |-> 0, dead |-> 0]

CountType(ags, ty) == Cardinality({i \in DOMAIN ags : ags[i].agent_type = ty})

get_statisticsDropsDead(ags) ==
    [susceptible |-> CountType(ags, AgentS), infected |-> CountType(ags, AgentI),
     recovered |-> CountType(ags, AgentR), dead |-> 0]
get_statistics(ags) ==
    [susceptible |-> CountType(ags, AgentS), infected |-> CountType(ags, AgentI),
     recovered |-> CountType(ags, AgentR), dead |-> CountType(ags, AgentD)]

\* ------------------------------------------------------------ init ------
ValidPDeath(p) == 0 <= p /\ p <= 100

ValidConfig(c) ==
    /\ c.infected <= c.n
    /\ ValidPDeath(c.p_death)
    /\ c.xdim >= 1 /\ c.ydim >= 1

\* usize subtraction: exact when it fits; otherwise a debug build panics and
\* a release build wraps.
usize_sub(a, b) ==
    IF a >= b THEN {[panic |-> FALSE, value |-> a - b]}
    ELSE {[panic |-> TRUE, value |-> 0],
          [panic |-> FALSE, value |-> a - b + UsizeModulus]}

initially_infected(i, infected) == i <= infected

RECURSIVE index_agents(_, _, _)
index_agents(g, ags, i) ==
    IF i \notin DOMAIN ags THEN g
    ELSE index_agents(grid_entry_push(g, <<ags[i].x, ags[i].y>>, i), ags, i + 1)

\* The number of initial placements of c.n agents on the grid of c.
Placements(c) == IF c.xdim * c.ydim = 0 THEN 0 ELSE (c.xdim * c.ydim)^(c.n)

Configs ==
    { c \in [n : 0..MaxN, infected : 0..(MaxN + 1), duration : 0..MaxDuration,
             p_death : PDeathValues, xdim : 0..MaxDim, ydim : 0..MaxDim] :
        Placements(c) <= MaxPlacements }

Init ==
    /\ cfg \in Configs
    /\ pc = "new"
    /\ grid = EmptyGrid
    /\ grid_size = <<0, 0>>
    /\ agents = <<>>
    /\ duration = 0
    /\ p_death = 0
    /\ stats = TallyDefault
    /\ tick = 0
    /\ stats_ticks = <<>>
    /\ events = <<>>
    /\ panic = "none"

\* Uniform::new(0, 0) panics: a zero-sized grid ends init before anything is built.
init_zero_grid ==
    /\ pc = "new"
    /\ cfg.xdim = 0 \/ cfg.ydim = 0
    /\ pc' = "init_failed"
    /\ panic' = "uniform_new"
    /\ UNCHANGED <<cfg, grid, grid_size, agents, duration, p_death, stats, tick,
                   stats_ticks, events>>

init_build(xs, ys, sub) ==
    LET ags == [i \in 0..(cfg.n - 1) |->
                  [x |-> xs[i], y |-> ys[i],
                   agent_type |-> IF initially_infected(i, cfg.infected)
                                  THEN AgentI ELSE AgentS,
                   tick |-> 0]]
    IN  IF sub.panic
        THEN /\ pc' = "init_failed"
             /\ panic' = "sub_overflow"
             /\ UNCHANGED <<grid, grid_size, agents, duration, p_death, stats,
                            tick, events>>
        ELSE /\ pc' = "constructed"
             /\ panic' = "none"
             /\ agents' = ags
             /\ grid' = index_agents(EmptyGrid, ags, 0)
             /\ grid_size' = <<cfg.xdim, cfg.ydim>>
             /\ duration' = cfg.duration
             /\ p_death' = cfg.p_death
             /\ stats' = [susceptible |-> sub.value, infected |-> cfg.infected,
                          recovered |-> 0, dead |-> 0]
             /\ tick' = 0
             /\ events' = [i \in 0..(cfg.n - 1) |-> <<>>]

init ==
    /\ pc = "new"
    /\ cfg.xdim >= 1 /\ cfg.ydim >= 1
    /\ \E xs \in [0..(cfg.n - 1) -> 0..(cfg.xdim - 1)],
          ys \in [0..(cfg.n - 1) -> 0..(cfg.ydim - 1)],
          sub \in usize_sub(cfg.n, cfg.infected) :
            init_build(xs, ys, sub)
    /\ UNCHANGED <<cfg, stats_ticks>>

\* ------------------------------------------------------------ update_type
\* rng.gen_bool(p): the outcomes a valid p allows (p = 0 never, p = 1 always).
gen_bool(p) == IF p = 0 THEN {FALSE} ELSE IF p = 100 THEN {TRUE} ELSE BOOLEAN

\* `if let AgentType::AgentS = self.agents[j].agent_type`
is_susceptibleOrRecovered(a) == a.agent_type \in {AgentS, AgentR}
is_susceptible(a) == a.agent_type = AgentS

\* `tick - self.agents[i].tick > self.duration`
infection_expiredInclusive(elapsed, d) == elapsed >= d
infection_expiredReversed(elapsed, d) == elapsed < d
infection_expired(elapsed, d) == elapsed > d

\* `if tick == self.agents[i].tick { continue; }`
newly_infected(t, a) == t = a.tick

Outcome(ags, ev, p) == [agents |-> ags, events |-> ev, panic |-> p]

\* The contact loop: `for j in self.grid[&(x, y)].clone()`, from position k of
\* the cloned cell vector.
RECURSIVE infect_cell(_, _, _, _, _)
infect_cell(ags, ev, cell, k, t) ==
    IF k > Len(cell) THEN Outcome(ags, ev, "none")
    ELSE LET j == cell[k] IN
         IF is_susceptible(ags[j])
         THEN infect_cell([ags EXCEPT ![j] = infect(@, t)],
                          [ev EXCEPT ![j] = Append(@, <<ags[j].agent_type, AgentI>>)],
                          cell, k + 1, t)
         ELSE infect_cell(ags, ev, cell, k + 1, t)

\* The pass over i = 0 .. agents.len()-1, in place; the set of its outcomes
\* over the gen_bool draws.  A panic ends the pass where it happens.
RECURSIVE update_from(_, _, _, _, _, _, _)
update_from(ags, ev, g, i, t, d, p) ==
    IF i \notin DOMAIN ags THEN {Outcome(ags, ev, "none")}
    ELSE IF ags[i].agent_type # AgentI THEN update_from(ags, ev, g, i + 1, t, d, p)
    ELSE UNION { 
      IF diff.panic THEN {Outcome(ags, ev, "sub_overflow")}
      ELSE IF infection_expired(diff.value, d)
      THEN IF ~ValidPDeath(p) THEN {Outcome(ags, ev, "gen_bool")}
           ELSE UNION { 
             IF b THEN update_from([ags EXCEPT ![i] = die(@, t)],
                                   [ev EXCEPT ![i] = Append(@, <<AgentI, AgentD>>)],
                                   g, i + 1, t, d, p)
                  ELSE update_from([ags EXCEPT ![i] = recover(@, t)],
                                   [ev EXCEPT ![i] = Append(@, <<AgentI, AgentR>>)],
                                   g, i + 1, t, d, p) : b \in gen_bool(p) }
      ELSE IF newly_infected(t, ags[i]) THEN update_from(ags, ev, g, i + 1, t, d, p)
      ELSE IF <<ags[i].x, ags[i].y>> \notin DOMAIN g
           THEN {Outcome(ags, ev, "grid_index")}
           ELSE LET r == infect_cell(ags, ev, g[<<ags[i].x, ags[i].y>>], 1, t)
                IN  update_from(r.agents, r.events, g, i + 1, t, d, p)
      : diff \in usize_sub(t, ags[i].tick) }

update_type ==
    /\ pc = "update_type"
    /\ \E r \in update_from(agents, events, grid, 0, tick, duration, p_death) :
         /\ agents' = r.agents
         /\ events' = r.events
         /\ panic' = r.panic
         /\ pc' = IF r.panic = "none" THEN "move_all" ELSE "panicked"
    /\ UNCHANGED <<cfg, grid, grid_size, duration, p_death, stats, tick, stats_ticks>>

\* ------------------------------------------------------------ move_all --
\* From agent i on: move the agent, then push its index into the cell of its
\* new position.  The set of outcomes over the movement draws.
RECURSIVE move_from(_, _, _, _)
move_from(ags, g, gs, i) ==
    IF i \notin DOMAIN ags THEN {[agents |-> ags, grid |-> g]}
    ELSE UNION { move_from([ags EXCEPT ![i] = a], 
                           grid_entry_push(g, <<a.x, a.y>>, i), gs, i + 1) :
                 a \in move_agent(ags[i], gs) }

move_all ==
    /\ pc = "move_all"
    /\ \E r \in move_from(agents, drain(grid), grid_size, 0) :
         /\ agents' = r.agents
         /\ grid' = r.grid
    /\ pc' = "get_statistics"
    /\ UNCHANGED <<cfg, grid_size, duration, p_death, stats, tick, stats_ticks,
                   events, panic>>

\* ------------------------------------------------------------ run -------
\* `let mut stats_ticks = vec![self.stats.clone()];`
run_begin ==
    /\ pc = "constructed"
    /\ stats_ticks' = <<stats>>
    /\ pc' = "while"
    /\ UNCHANGED <<cfg, grid, grid_size, agents, duration, p_death, stats, tick,
                   events, panic>>

run_loop_enterNoTick ==
    /\ pc = "while"
    /\ stats.infected > 0
    /\ tick < MaxTick
    /\ pc' = "update_type"
    /\ UNCHANGED <<cfg, grid, grid_size, agents, duration, p_death, stats,
                   tick, stats_ticks, events, panic>>

\* `while self.stats.infected > 0 { self.tick += 1; ...`
run_loop_enter ==
    /\ pc = "while"
    /\ stats.infected > 0
    /\ tick < MaxTick
    /\ tick' = tick + 1
    /\ pc' = "update_type"
    /\ UNCHANGED <<cfg, grid, grid_size, agents, duration, p_death, stats,
                   stats_ticks, events, panic>>

run_recordPushesStale ==
    /\ pc = "get_statistics"
    /\ stats' = get_statistics(agents)
    /\ stats_ticks' = Append(stats_ticks, stats)
    /\ pc' = "while"
    /\ UNCHANGED <<cfg, grid, grid_size, agents, duration, p_death, tick,
                   events, panic>>

\* `self.stats = self.get_statistics(); stats_ticks.push(self.stats.clone());`
run_record ==
    /\ pc = "get_statistics"
    /\ stats' = get_statistics(agents)
    /\ stats_ticks' = Append(stats_ticks, get_statistics(agents))
    /\ pc' = "while"
    /\ UNCHANGED <<cfg, grid, grid_size, agents, duration, p_death, tick,
                   events, panic>>

\* The loop condition fails: run returns stats_ticks.
run_return ==
    /\ pc = "while"
    /\ ~(stats.infected > 0)
    /\ pc' = "returned"
    /\ UNCHANGED <<cfg, grid, grid_size, agents, duration, p_death, stats, tick,
                   stats_ticks, events, panic>>

Next ==
    \/ init_zero_grid
    \/ init
    \/ run_begin
    \/ run_loop_enter
    \/ update_type
    \/ move_all
    \/ run_record
    \/ run_return

Spec == Init /\ [][Next]_vars

\* A pass, once entered, has an outcome: update_type is enabled exactly when
\* pc = "update_type" and move_all exactly when pc = "move_all".
PassesEnabled ==
    /\ (pc = "update_type") <=> ENABLED update_type
    /\ (pc = "move_all") <=> ENABLED move_all

\* The program is sequential and nothing suspends it: the caller calls init and
\* then run, and each statement of run, once reached, is executed.  For the
\* two passes, each a loop over the finite agent vector, weak fairness is
\* written out: by PassesEnabled and because each pass leaves its pc,
\* WF_vars(update_type) is []<>(pc # "update_type"), and likewise for move_all.
FairSpec ==
    /\ Init /\ [][Next]_vars
    /\ WF_vars(init_zero_grid) /\ WF_vars(init)
    /\ WF_vars(run_begin) /\ WF_vars(run_loop_enter)
    /\ WF_vars(run_record) /\ WF_vars(run_return)
    /\ []<>(pc # "update_type") /\ []<>(pc # "move_all")

\* ------------------------------------------------------------ properties
Constructed == pc \notin {"new", "init_failed"}

Total(t) == t.susceptible + t.infected + t.recovered + t.dead

InfectedAgents == {i \in DOMAIN agents : agents[i].agent_type = AgentI}

\* Some agent was infected during the run (not at init).
SomeInfectEvent ==
    \E i \in DOMAIN events : \E k \in 1..Len(events[i]) : events[i][k][2] = AgentI

\* C1: for a valid configuration, every entry of the series run() builds (the
\* initial entry and each per-tick entry) sums to the population size N.
Conservation ==
    ValidConfig(cfg) =>
        \A k \in 1..Len(stats_ticks) : Total(stats_ticks[k]) = cfg.n

\* A valid run has returned a series of at least three entries whose last
\* entry counts dead and recovered agents.
ConservationWitness ==
    /\ pc = "returned"
    /\ ValidConfig(cfg)
    /\ Len(stats_ticks) >= 3
    /\ stats_ticks[Len(stats_ticks)].dead > 0
    /\ stats_ticks[Len(stats_ticks)].recovered > 0

\* C2: after init with 0 <= k <= N, exactly the agents 0..k-1 are Infected, the
\* agents with index >= k are Susceptible, and every last_transition_tick is 0.
InitialSeeding ==
    (pc = "constructed" /\ ValidConfig(cfg)) =>
        \A i \in DOMAIN agents :
            /\ agents[i].agent_type = (IF i < cfg.infected THEN AgentI ELSE AgentS)
            /\ agents[i].tick = 0

\* C3: after init and after each step, the stored counts, and the entry just
\* recorded in the series, equal the census get_statistics takes of the agents.
RecordedCountsAgree ==
    (pc \in {"constructed", "while", "returned"} /\ ValidConfig(cfg)) =>
        /\ stats = get_statistics(agents)
        /\ Len(stats_ticks) >= 1 =>
               stats_ticks[Len(stats_ticks)] = get_statistics(agents)

\* The configurations C4 is about.
ValidInfectedConfig == ValidConfig(cfg) /\ cfg.n >= 1 /\ cfg.infected > 0

\* C4: for a valid configuration with N >= 1 and 0 < k <= N, under every
\* sequence of draws run() eventually leaves its loop and returns, and its tick
\* counter never passes N * duration + 1.
Termination ==
    /\ (pc = "new" /\ ValidInfectedConfig) ~> (pc = "returned")
    /\ [](ValidInfectedConfig => tick <= cfg.n * cfg.duration + 1)

\* A valid run with k > 0 has returned after three ticks, an infection having
\* spread during it.
TerminationWitness ==
    /\ pc = "returned"
    /\ ValidInfectedConfig
    /\ tick >= 3
    /\ SomeInfectEvent

\* C5: for a valid configuration, when run() has returned the last entry of the
\* series has infected = 0 and no agent is in the Infected compartment.
TerminalState ==
    (pc = "returned" /\ ValidConfig(cfg)) =>
        /\ stats_ticks[Len(stats_ticks)].infected = 0
        /\ InfectedAgents = {}

\* C6: across consecutive entries of the series, recovered and dead never
\* decrease and susceptible never increases.
Monotonicity ==
    \A k \in 1..(Len(stats_ticks) - 1) :
        /\ stats_ticks[k + 1].recovered >= stats_ticks[k].recovered
        /\ stats_ticks[k + 1].dead >= stats_ticks[k].dead
        /\ stats_ticks[k + 1].susceptible <= stats_ticks[k].susceptible

\* The series holds two entries between which susceptible fell, and two
\* census entries between which recovered rose while an agent was still infected.
MonotonicityWitness ==
    /\ \E k \in 1..(Len(stats_ticks) - 1) :
           stats_ticks[k + 1].susceptible < stats_ticks[k].susceptible
    /\ \E k \in 2..(Len(stats_ticks) - 1) :
           /\ stats_ticks[k + 1].recovered > stats_ticks[k].recovered
           /\ stats_ticks[k + 1].infected > 0

\* The compartment changes the lifecycle allows.
AllowedEvents == {<<AgentS, AgentI>>, <<AgentI, AgentR>>, <<AgentI, AgentD>>}

InitialType(i) == IF initially_infected(i, cfg.infected) THEN AgentI ELSE AgentS

\* C7: every die/recover/infect call made on an agent is Susceptible->Infected,
\* Infected->Recovered or Infected->Dead (so infect only hits a Susceptible
\* agent and nothing leaves Recovered or Dead), the calls account for every
\* compartment the agent has been in, and no agent is infected twice.
CompartmentLifecycle ==
    Constructed =>
        \A i \in DOMAIN agents :
            LET ev == events[i] IN
            /\ \A k \in 1..Len(ev) : ev[k] \in AllowedEvents
            /\ \A k \in 1..Len(ev) :
                   ev[k][1] = (IF k = 1 THEN InitialType(i) ELSE ev[k - 1][2])
            /\ agents[i].agent_type =
                   (IF Len(ev) = 0 THEN InitialType(i) ELSE ev[Len(ev)][2])
            /\ Cardinality({k \in 1..Len(ev) : ev[k][2] = AgentI}) <= 1

\* An agent was infected during the run and has since died, and an agent
\* infected at init has recovered.
CompartmentLifecycleWitness ==
    \E i, j \in DOMAIN agents :
        /\ events[i] = <<<<AgentS, AgentI>>, <<AgentI, AgentD>>>>
        /\ events[j] = <<<<AgentI, AgentR>>>>

\* C8: after init and after every movement pass, every agent has
\* 0 <= x < width and 0 <= y < height.
PositionBounds ==
    Constructed =>
        \A i \in DOMAIN agents :
            /\ 0 <= agents[i].x /\ agents[i].x < grid_size[1]
            /\ 0 <= agents[i].y /\ agents[i].y < grid_size[2]

\* A movement pass has just ended with living agents on the upper edge of
\* both axes and on the lower edge of both, and one on a 1 x 1 grid.
PositionBoundsWitness ==
    /\ pc = "get_statistics"
    /\ tick >= 2
    /\ \E i, j \in DOMAIN agents :
           /\ agents[i].agent_type # AgentD /\ agents[j].agent_type # AgentD
           /\ agents[i].x = grid_size[1] - 1 /\ agents[i].y = grid_size[2] - 1
           /\ agents[j].x = 0 /\ agents[j].y = 0
           /\ grid_size[1] >= 2 /\ grid_size[2] >= 2

\* How often agent i occurs in the whole index.
Occurrences(g, i) ==
    Cardinality({ck \in UNION {{<<c, k>> : k \in 1..Len(g[c])} : c \in DOMAIN g} :
                    g[ck[1]][ck[2]] = i})

\* C9: after init and after every movement pass, every agent index appears
\* exactly once in the whole index, in the cell keyed by the agent's position.
SpatialIndexConsistency ==
    Constructed =>
        \A i \in DOMAIN agents :
            /\ Occurrences(grid, i) = 1
            /\ <<agents[i].x, agents[i].y>> \in DOMAIN grid
            /\ \E k \in 1..Len(grid[<<agents[i].x, agents[i].y>>]) :
                   grid[<<agents[i].x, agents[i].y>>][k] = i

\* The transition pass is about to read an index rebuilt by at least one
\* movement pass, with a shared cell and a second occupied cell.
SpatialIndexWitness ==
    /\ pc = "update_type"
    /\ tick >= 2
    /\ Cardinality(DOMAIN grid) >= 2
    /\ \E c \in DOMAIN grid : Len(grid[c]) >= 2

\* C10: an invalid configuration (k > N, p_death outside [0,1], a zero-sized
\* grid) ends at init; it never yields a constructed simulation.
InvalidConfigFailsFast ==
    ~ValidConfig(cfg) => pc \in {"new", "init_failed"}

\* C11: for a valid configuration no step of run() fails: no panic ends the
\* run, every Infected agent's position is a key of the index, no agent's
\* last_transition_tick exceeds the current tick, and no coordinate is negative.
NoFailureAfterConstruction ==
    (ValidConfig(cfg) /\ Constructed) =>
        /\ pc # "panicked" /\ panic = "none"
        /\ \A i \in DOMAIN agents :
            /\ agents[i].tick <= tick
            /\ agents[i].x >= 0 /\ agents[i].y >= 0
            /\ agents[i].agent_type = AgentI =>
                   <<agents[i].x, agents[i].y>> \in DOMAIN grid

\* A transition pass of a valid run has just looked up the cell of an agent at
\* coordinate 0 that had moved before, and infected an agent through it.
NoFailureWitness ==
    /\ ValidConfig(cfg)
    /\ pc = "move_all"
    /\ tick >= 2
    /\ \E i, j \in DOMAIN agents :
           /\ agents[i].agent_type = AgentI /\ agents[i].tick < tick
           /\ agents[j].agent_type = AgentI /\ agents[j].tick = tick
           /\ agents[i].x = 0 /\ agents[i].y = 0
           /\ agents[j].x = 0 /\ agents[j].y = 0

\* C12: two runs with the same configuration and the same seed give the same
\* series.  init and run take no seed and every draw comes from thread_rng(),
\* so the configuration is all a caller can fix: whenever a transition pass
\* starts, all the outcomes the draws allow must record the same census.
SeriesFixedByConfiguration ==
    pc = "update_type" =>
        \A r1, r2 \in update_from(agents, events, grid, 0, tick, duration, p_death) :
            get_statistics(r1.agents) = get_statistics(r2.agents)

\* C13: for N >= 1, 1 <= k <= N, duration = 0 and p_death = 1 the run takes
\* exactly one step and returns two entries, the second {N-k, 0, 0, k}, and no
\* Susceptible agent is ever infected.
ZeroDurationCertainDeath ==
    (/\ pc = "returned" /\ ValidInfectedConfig
     /\ cfg.duration = 0 /\ cfg.p_death = 100) =>
        /\ tick = 1
        /\ Len(stats_ticks) = 2
        /\ stats_ticks[2] = [susceptible |-> cfg.n - cfg.infected, infected |-> 0,
                             recovered |-> 0, dead |-> cfg.infected]
        /\ ~SomeInfectEvent

\* C14: whenever the loop condition is tested, and on return, the series holds
\* tick + 1 entries: entry 0 is the snapshot init stored and, for i >= 1, entry
\* i is the census taken at tick i; an entry, once pushed, is never changed.
SeriesLength ==
    /\ [](pc \in {"while", "returned"} =>
            /\ Len(stats_ticks) = tick + 1
            /\ tick >= 1 => stats_ticks[tick + 1] = get_statistics(agents)
            /\ ValidConfig(cfg) =>
                   stats_ticks[1] = [susceptible |-> cfg.n - cfg.infected,
                                     infected |-> cfg.infected,
                                     recovered |-> 0, dead |-> 0])
    /\ [][SubSeq(stats_ticks', 1, Len(stats_ticks)) = stats_ticks]_vars

\* A valid run has returned after three steps with four entries, the last
\* differing from the one before.
SeriesLengthWitness ==
    /\ pc = "returned"
    /\ ValidConfig(cfg)
    /\ tick = 3
    /\ Len(stats_ticks) = 4
    /\ stats_ticks[4] # stats_ticks[3]

\* The agents Infected before the pass at tick t that are inside their
\* infectious window, and those past it.
ActiveBefore(ags, t, d) ==
    {i \in DOMAIN ags : /\ ags[i].agent_type = AgentI
                        /\ 0 < t - ags[i].tick /\ t - ags[i].tick <= d}

ExpiredBefore(ags, t, d) ==
    {i \in DOMAIN ags : ags[i].agent_type = AgentI /\ t - ags[i].tick > d}

\* The agents Susceptible before the pass that share a cell with an active one.
ExposedBefore(ags, t, d) ==
    {j \in DOMAIN ags :
        /\ ags[j].agent_type = AgentS
        /\ \E i \in ActiveBefore(ags, t, d) :
               ags[i].x = ags[j].x /\ ags[i].y = ags[j].y}

\* The pass evaluated against a read-only snapshot of the agents before it,
\* `deaths` being the expired agents whose draw was death.
SnapshotPass(ags, t, d, deaths) ==
    [j \in DOMAIN ags |->
        IF j \in ExpiredBefore(ags, t, d)
        THEN [ags[j] EXCEPT !.agent_type = IF j \in deaths THEN AgentD ELSE AgentR,
                            !.tick = t]
        ELSE IF j \in ExposedBefore(ags, t, d)
        THEN [ags[j] EXCEPT !.agent_type = AgentI, !.tick = t]
        ELSE ags[j]]

\* C15: a transition pass that completes infects exactly the agents that were
\* Susceptible before it and shared a cell with an agent Infected before it
\* with 0 < t - last_transition_tick <= duration, and leaves the agents as a
\* pass evaluated against the pre-pass snapshot, with the same death draws,
\* would.
SnapshotEquivalence ==
    [][(pc = "update_type" /\ pc' = "move_all") =>
          /\ {j \in DOMAIN agents : /\ agents[j].agent_type # AgentI
                                    /\ agents'[j].agent_type = AgentI}
                 = ExposedBefore(agents, tick, duration)
          /\ agents' = SnapshotPass(agents, tick, duration,
                           {i \in DOMAIN agents : /\ agents[i].agent_type = AgentI
                                                  /\ agents'[i].agent_type = AgentD})
      ]_vars

\* A pass is about to run in which an active agent shares its cell with a
\* Susceptible agent of lower index while another agent is past its window.
SnapshotEquivalenceWitness ==
    /\ pc = "update_type"
    /\ ValidConfig(cfg)
    /\ ExpiredBefore(agents, tick, duration) # {}
    /\ \E i \in ActiveBefore(agents, tick, duration) :
           \E j \in ExposedBefore(agents, tick, duration) :
               j < i /\ agents[i].x = agents[j].x /\ agents[i].y = agents[j].y

\* C16: with a valid configuration an Infected agent with last_transition_tick
\* t0 is still Infected, with that tick, after every pass up to tick
\* t0 + duration, and the pass at tick t0 + duration + 1 makes it Dead or
\* Recovered with last_transition_tick t0 + duration + 1: Dead when
\* p_death = 1, Recovered when p_death = 0.
InfectiousWindow ==
    /\ []((ValidConfig(cfg) /\ Constructed) =>
            \A i \in DOMAIN agents :
                agents[i].agent_type = AgentI =>
                    tick - agents[i].tick
                        <= duration + (IF pc = "update_type" THEN 1 ELSE 0))
    /\ [][(ValidConfig(cfg) /\ Constructed) =>
            \A i \in DOMAIN agents :
                agents[i].agent_type = AgentI =>
                    IF pc = "update_type" /\ tick - agents[i].tick = duration + 1
                    THEN /\ agents'[i].agent_type \in {AgentR, AgentD}
                         /\ agents'[i].tick = agents[i].tick + duration + 1
                         /\ p_death = 100 => agents'[i].agent_type = AgentD
                         /\ p_death = 0 => agents'[i].agent_type = AgentR
                    ELSE /\ agents'[i].agent_type = AgentI
                         /\ agents'[i].tick = agents[i].tick
      ]_vars

\* With duration 1 and p_death = 0.5, an agent infected during the run (at
\* tick 1) has died at tick 3 and an agent infected at init has recovered at
\* tick 2.
InfectiousWindowWitness ==
    /\ ValidConfig(cfg) /\ duration = 1 /\ p_death = 50
    /\ \E i, j \in DOMAIN agents :
           /\ events[i] = <<<<AgentS, AgentI>>, <<AgentI, AgentD>>>>
           /\ agents[i].tick = 3
           /\ events[j] = <<<<AgentI, AgentR>>>>
           /\ agents[j].tick = 2

\* C17: in a transition pass, an agent that is infected during the pass ends
\* it Infected with last_transition_tick = tick after exactly one call (its
\* infect: it neither recovers nor dies), and it spreads to nobody: every
\* agent infected in the pass shared its cell with an agent that was already
\* Infected, and active, before the pass.
NewlyInfectedInert ==
    [][pc = "update_type" =>
          \A j \in DOMAIN agents :
              agents[j].agent_type = AgentS =>
                  \/ agents'[j] = agents[j] /\ events'[j] = events[j]
                  \/ /\ agents'[j].agent_type = AgentI
                     /\ agents'[j].tick = tick
                     /\ events'[j] = Append(events[j], <<AgentS, AgentI>>)
                     /\ j \in ExposedBefore(agents, tick, duration)
      ]_vars

\* A pass has just infected an agent that comes after its infector in the
\* agent vector, so the pass went on to visit it as an Infected agent.
NewlyInfectedInertWitness ==
    /\ pc = "move_all"
    /\ \E i, j \in DOMAIN agents :
           /\ i < j
           /\ agents[i].agent_type = AgentI /\ agents[i].tick < tick
           /\ agents[j].agent_type = AgentI /\ agents[j].tick = tick
           /\ events[j] = <<<<AgentS, AgentI>>>>
           /\ agents[i].x = agents[j].x /\ agents[i].y = agents[j].y

\* The coordinates one axis can take after one movement step from old.
StepSet(old, bound) ==
    {old, (old + 1) % bound, IF old >= 1 THEN old - 1 ELSE 0}

\* C18: in one movement pass each coordinate of a non-Dead agent stays,
\* becomes (old + 1) mod bound, or becomes max(old - 1, 0), the two axes
\* independently (every pair of such values is a possible step); from
\* coordinate 0 the agent never reaches bound - 1 when bound >= 3, and a
\* coordinate changes by more than one cell only by wrapping from
\* bound - 1 to 0.
MovementStepShape ==
    /\ [](pc = "move_all" =>
            \A i \in DOMAIN agents :
                agents[i].agent_type # AgentD =>
                    { <<b.x, b.y>> : b \in move_agent(agents[i], grid_size) }
                        = StepSet(agents[i].x, grid_size[1])
                            \X StepSet(agents[i].y, grid_size[2]))
    /\ [][pc = "move_all" =>
            \A i \in DOMAIN agents :
                agents[i].agent_type # AgentD =>
                    LET W == grid_size[1]
                        H == grid_size[2]
                        x0 == agents[i].x
                        y0 == agents[i].y
                        x1 == agents'[i].x
                        y1 == agents'[i].y
                    IN  /\ x1 \in StepSet(x0, W)
                        /\ y1 \in StepSet(y0, H)
                        /\ (W >= 3 /\ x0 = 0) => x1 # W - 1
                        /\ (H >= 3 /\ y0 = 0) => y1 # H - 1
                        /\ x1 - x0 \in -1..1 \/ (x0 = W - 1 /\ x1 = 0)
                        /\ y1 - y0 \in -1..1 \/ (y0 = H - 1 /\ y1 = 0)
       ]_vars

\* A second movement pass is about to run on an axis of at least three
\* cells, with one living agent on the upper edge (whose step can wrap to
\* 0) and one living agent at coordinate 0.
MovementStepShapeWitness ==
    /\ pc = "move_all" /\ tick >= 2 /\ grid_size[1] >= 3
    /\ \E i, j \in DOMAIN agents :
           /\ agents[i].agent_type # AgentD /\ agents[j].agent_type # AgentD
           /\ agents[i].x = grid_size[1] - 1 /\ agents[j].x = 0
           /\ \E b \in move_agent(agents[i], grid_size) : b.x = 0

\* C19: once an agent is Dead, its position, compartment and
\* last_transition_tick never change again, and whenever the spatial index
\* has been rebuilt by a movement pass the Dead agent is listed in it, once,
\* under its unchanged position.
DeadFrozenIndexed ==
    /\ [][Constructed =>
            \A i \in DOMAIN agents :
                agents[i].agent_type = AgentD => agents'[i] = agents[i]]_vars
    /\ [](pc \in {"get_statistics", "while", "update_type", "move_all",
                  "returned"} =>
            \A i \in DOMAIN agents :
                agents[i].agent_type = AgentD =>
                    LET cell == <<agents[i].x, agents[i].y>>
                    IN  /\ cell \in DOMAIN grid
                        /\ \E k \in 1..Len(grid[cell]) : grid[cell][k] = i
                        /\ Occurrences(grid, i) = 1)

\* A movement pass has just run with an agent that died in an earlier tick
\* and a living agent that shares the grid with it.
DeadFrozenIndexedWitness ==
    /\ pc = "get_statistics"
    /\ \E i, j \in DOMAIN agents :
           /\ agents[i].agent_type = AgentD /\ agents[i].tick < tick
           /\ agents[j].agent_type # AgentD
           /\ <<agents[i].x, agents[i].y>> \in DOMAIN grid

\* C20: a step increments the tick, then runs the transition pass, then the
\* movement pass, then recomputes the counts and appends them.  The
\* transition pass leaves every position and the spatial index unchanged;
\* the movement pass leaves every compartment and last_transition_tick
\* unchanged; neither pass changes the tick or the counts.
PassFraming ==
    [][/\ (pc = "while" /\ pc' # "returned") =>
              /\ pc' = "update_type"
              /\ tick' = tick + 1
              /\ agents' = agents /\ grid' = grid /\ stats' = stats
       /\ pc = "update_type" =>
              /\ pc' \in {"move_all", "panicked"}
              /\ tick' = tick /\ grid' = grid /\ stats' = stats
              /\ stats_ticks' = stats_ticks
              /\ \A i \in DOMAIN agents :
                     agents'[i].x = agents[i].x /\ agents'[i].y = agents[i].y
       /\ pc = "move_all" =>
              /\ pc' = "get_statistics"
              /\ tick' = tick /\ stats' = stats
              /\ stats_ticks' = stats_ticks
              /\ \A i \in DOMAIN agents :
                     /\ agents'[i].agent_type = agents[i].agent_type
                     /\ agents'[i].tick = agents[i].tick
       /\ pc = "get_statistics" =>
              /\ pc' = "while"
              /\ tick' = tick /\ agents' = agents /\ grid' = grid
              /\ stats' = get_statistics(agents)
              /\ stats_ticks' = Append(stats_ticks, stats')
      ]_vars

\* A step has run both passes in order: an agent infected by this tick's
\* transition pass (which needs a shared cell) now stands alone in its
\* cell, so the movement pass ran after the infection.
PassFramingWitness ==
    /\ pc = "get_statistics"
    /\ \E j \in DOMAIN agents :
           /\ agents[j].agent_type = AgentI /\ agents[j].tick = tick
           /\ tick >= 1
           /\ \A i \in DOMAIN agents \ {j} :
                  <<agents[i].x, agents[i].y>> # <<agents[j].x, agents[j].y>>

====
